---- MODULE Spec2Model ----
(***************************************************************************)
(* State-machine model of lib.py of variational_QMonteCarlo: the           *)
(* Metropolis random walker (random_walker), the initial-point draw        *)
(* (rand_init_point), the step-size tuner (find_optimal_tm_sigma), the     *)
(* integration driver (MC_integration) and the Optimizer class.            *)
(*                                                                         *)
(* Reals are modelled on integer grids.  A configuration (dim = 1) is an   *)
(* integer, a density value is a small natural, and a uniform draw on      *)
(* [0,1) is k/UDen with k in 0..UDen-1.  A ratio is kept as the pair       *)
(* (num, den) the code divides, so that x/0 keeps the meaning Python and   *)
(* numpy give it.                                                          *)
(***************************************************************************)
EXTENDS Integers, Sequences, FiniteSets, TLC

VARIABLES
    \* ---- the density callable handed to the library, and alpha
    shape,          \* g: the density is prob_density(r, a) = a * g[r], 0 off Points
    has_default,    \* TRUE: def prob_density(r, alpha=alpha_default); FALSE: def prob_density(r, alpha)
    alpha_default,  \* the default of the callable's alpha parameter (when it has one)
    np_scalars,     \* TRUE: the callable returns numpy float64, FALSE: Python numbers
    alpha,          \* the alpha argument of the call
    \* ---- random_walker(prob_density, alpha, N_steps, dim, init_point, tm_sigma)
    N_steps, init_point, tm_sigma,
    pc,             \* where the running call is: "call", "loop" (random_walker),
                    \* "while", "batch" (find_optimal_tm_sigma), "returned", "raised"
    err,            \* the exception that left the function, "none" if none
    steps,          \* the array steps, 1-based here (steps[k] is the code's steps[k-1])
    curr_point, i, next_point, rate,
    u,              \* numerator of the last np.random.rand(1) draw (u/UDen)
    hist,           \* per completed iteration: the point proposed around, the
                    \* proposal, the uniform draw and the decision
    \* ---- find_optimal_tm_sigma(prob_density, alpha, dim, tm_sigma_init, Niter, tol)
    \* (its locals curr_point, next_point, rate, i and pc, err, u are the ones above)
    Niter, tm_sigma_init, curr_tm_sigma, iter, total_rate, rate_av,
    \* ---- MC_integration(E_local_f, prob_density, alpha, N_steps, N_walkers, N_skip, L_start)
    E_const,        \* the constant c of the local energy E_local_f(r, alpha) = c
    N_walkers, N_skip,
    mc_pc,          \* "call", "returned", "raised"
    mc_result,      \* the value returned
    \* ---- Optimizer instances
    opt,            \* opt[o] = [method, converged, alpha]: the fields of instance o
    opt_err,        \* opt_err[o]: the exception the last update_alpha of o raised
    opt_calls,      \* opt_calls[o]: number of update_alpha calls made on o
    \* ---- walkers run side by side, each rand_init_point then random_walker
    system_size,
    seed,           \* the state np.random was seeded with
    rng,            \* the state of the module-level np.random generator
    m_pc, m_err, m_init, m_curr, m_next, m_i, m_steps   \* per walker

dvars == <<shape, has_default, alpha_default, np_scalars, alpha>>
wvars == <<N_steps, init_point, tm_sigma, pc, err, steps, curr_point, i,
           next_point, rate, u, hist>>
tvars == <<Niter, tm_sigma_init, curr_tm_sigma, iter, total_rate, rate_av>>
cvars == <<E_const, N_walkers, N_skip, mc_pc, mc_result>>
ovars == <<opt, opt_err, opt_calls>>
mvars == <<system_size, seed, rng, m_pc, m_err, m_init, m_curr, m_next, m_i, m_steps>>
vars == <<dvars, wvars, tvars, cvars, ovars, mvars>>

----------------------------------------------------------------------------
\* Bounds of the model
MaxSteps == 2       \* N_steps ranges over 0..MaxSteps
UDen == 3           \* uniform draws are 0/UDen .. (UDen-1)/UDen
MaxG == 2           \* density shapes take values in 0..MaxG
MaxNiter == 1       \* Niter ranges over 0..MaxNiter
MaxWalkers == 2     \* N_walkers ranges over 1..MaxWalkers
MaxCalls == 2       \* update_alpha calls made on one Optimizer
MaxEnergy == 2      \* the constant local energy ranges over 0..MaxEnergy

\* Program constants
BatchLen == 100     \* for i in range(100)

Points == {-1, 0, 1}            \* support of the density shapes
Alphas == {1, 2}                \* values of the variational parameter
Normals == {-1, 0, 1}           \* standard-normal draws z; a N(loc, scale) draw is loc + scale*z
Sigmas == {-1, 0, 1}            \* scale arguments tm_sigma, system_size (negative: invalid)
Shapes == [Points -> 0..MaxG]
Uniforms == 0..(UDen - 1)

----------------------------------------------------------------------------
\* The caller-supplied density: non-negative, unnormalised, compact support.
prob_density(r, a) == IF r \in Points THEN a * shape[r] ELSE 0

\* np.random.normal(loc, scale) for the standard-normal draw z
normal(loc, scale, z) == loc + scale * z

\* rate = prob_density(next_point,alpha)/prob_density(curr_point): the second
\* call passes no alpha, so the callable's own default is what it is evaluated at.
Rate(next, curr) ==
    [num |-> prob_density(next, alpha), den |-> prob_density(curr, alpha_default)]

\* The division raises ZeroDivisionError on Python numbers; numpy float64
\* yields inf or nan with a RuntimeWarning only.
DivisionRaises(curr) == ~np_scalars /\ prob_density(curr, alpha_default) = 0

\* (variant of Accepts with the comparison turned round: rate <= draw)
AcceptsReversed(uu, r) ==
    IF r.den = 0 THEN r.num = 0
    ELSE uu * r.den >= r.num * UDen

\* np.random.rand(1) <= rate, for the draw uu/UDen; nan compares False, inf True.
Accepts(uu, r) ==
    IF r.den = 0 THEN r.num > 0
    ELSE uu * r.den <= r.num * UDen

\* (variant of Recorded without the else branch: a rejected step leaves the
\* entry as np.zeros made it)
RecordedNoElse(accepted, next, curr, old) == IF accepted THEN next ELSE old

\* the value written to steps[i] by the if/else of the loop body
Recorded(accepted, next, curr, old) == IF accepted THEN next ELSE curr

----------------------------------------------------------------------------
\* Floating-point sums of ratios (find_optimal_tm_sigma's total_rate): an exact
\* rational num/den, or one of the IEEE values inf and nan numpy produces.
RECURSIVE GCD(_, _)
GCD(a, b) == IF b = 0 THEN a ELSE GCD(b, a % b)

Fin(n, d) == LET g == GCD(n, d) IN [kind |-> "fin", num |-> n \div g, den |-> d \div g]
Inf == [kind |-> "inf", num |-> 1, den |-> 0]
NaN == [kind |-> "nan", num |-> 0, den |-> 0]

\* the float a ratio record evaluates to (den = 0 only arises on numpy scalars)
RateValue(r) ==
    IF r.den # 0 THEN Fin(r.num, r.den)
    ELSE IF r.num > 0 THEN Inf ELSE NaN

\* total_rate += rate
FAdd(x, y) ==
    IF x.kind = "nan" \/ y.kind = "nan" THEN NaN
    ELSE IF x.kind = "inf" \/ y.kind = "inf" THEN Inf
    ELSE Fin(x.num * y.den + y.num * x.den, x.den * y.den)

\* rate_av = total_rate/100
FDiv(x, n) == IF x.kind = "fin" THEN Fin(x.num, x.den * n) ELSE x

----------------------------------------------------------------------------
\* States of the parts a specification does not run
DensityInit ==
    /\ shape \in Shapes
    /\ alpha \in Alphas
    /\ has_default \in BOOLEAN
    /\ alpha_default \in (IF has_default THEN Alphas ELSE {alpha})
    /\ np_scalars \in BOOLEAN

LocalsInit ==
    /\ err = "none" /\ curr_point = 0 /\ i = 0
    /\ next_point = 0 /\ rate = [num |-> 0, den |-> 1] /\ u = 0

WalkerIdle ==
    /\ init_point = 0 /\ steps = << >> /\ hist = << >>

TunerIdle ==
    /\ Niter = 0 /\ tm_sigma_init = 0 /\ curr_tm_sigma = 0 /\ iter = 0
    /\ total_rate = Fin(0, 1) /\ rate_av = Fin(0, 1)

DensityIdle ==
    /\ shape = [r \in Points |-> 0] /\ alpha = 1
    /\ has_default = FALSE /\ alpha_default = 1 /\ np_scalars = FALSE

MCIdle ==
    /\ E_const = 0 /\ N_walkers = 0 /\ N_skip = 0 /\ mc_pc = "idle"
    /\ mc_result = [kind |-> "unset", estimate |-> 0, stderr |-> 0]

OptIdle == opt = << >> /\ opt_err = << >> /\ opt_calls = << >>

MultiIdle ==
    /\ system_size = 0 /\ seed = 0 /\ rng = 0
    /\ m_pc = << >> /\ m_err = << >> /\ m_init = << >> /\ m_curr = << >>
    /\ m_next = << >> /\ m_i = << >> /\ m_steps = << >>

----------------------------------------------------------------------------
\* random_walker, one call

Init ==
    /\ DensityInit
    /\ N_steps \in 0..MaxSteps
    /\ init_point \in Points
    /\ tm_sigma \in Sigmas
    /\ pc = "call" /\ LocalsInit
    /\ steps = << >> /\ hist = << >>
    /\ TunerIdle /\ MCIdle /\ OptIdle /\ MultiIdle

\* an exception leaves the running function
Raise(e) ==
    /\ pc' = "raised" /\ err' = e
    /\ UNCHANGED <<N_steps, init_point, tm_sigma, steps, curr_point, i,
                   next_point, rate, u, hist>>

\* lines 136-138: steps = np.zeros([N_steps,dim]); steps[0] = init_point;
\* curr_point = init_point.  An empty array has no row 0.
random_walker_enter ==
    /\ pc = "call"
    /\ IF N_steps = 0
       THEN Raise("IndexError")
       ELSE /\ steps' = [k \in 1..N_steps |-> IF k = 1 THEN init_point ELSE 0]
            /\ curr_point' = init_point
            /\ i' = 0
            /\ pc' = "loop"
            /\ UNCHANGED <<N_steps, init_point, tm_sigma, err, next_point, rate, u, hist>>
    /\ UNCHANGED <<dvars, tvars, cvars, ovars, mvars>>

\* lines 139-146: one iteration of for i in range(N_steps)
random_walker_step ==
    /\ pc = "loop" /\ i < N_steps
    /\ IF tm_sigma < 0 THEN Raise("ValueError")
       ELSE \E z \in Normals :
          LET next == normal(curr_point, tm_sigma, z) IN
          IF ~has_default THEN Raise("TypeError")
          ELSE IF DivisionRaises(curr_point) THEN Raise("ZeroDivisionError")
          ELSE \E uu \in Uniforms :
             LET r == Rate(next, curr_point)
                 accepted == Accepts(uu, r)
             IN /\ next_point' = next
                /\ rate' = r
                /\ u' = uu
                /\ steps' = [steps EXCEPT ![i + 1] =
                                 Recorded(accepted, next, curr_point, @)]
                /\ curr_point' = IF accepted THEN next ELSE curr_point
                /\ hist' = Append(hist, [center |-> curr_point, next_point |-> next,
                                         u |-> uu, accepted |-> accepted])
                /\ i' = i + 1
                /\ UNCHANGED <<N_steps, init_point, tm_sigma, pc, err>>
    /\ UNCHANGED <<dvars, tvars, cvars, ovars, mvars>>

\* line 148: return steps
random_walker_return ==
    /\ pc = "loop" /\ i = N_steps
    /\ pc' = "returned"
    /\ UNCHANGED <<N_steps, init_point, tm_sigma, err, steps, curr_point, i,
                   next_point, rate, u, hist>>
    /\ UNCHANGED <<dvars, tvars, cvars, ovars, mvars>>

Next == random_walker_enter \/ random_walker_step \/ random_walker_return

Spec == Init /\ [][Next]_vars

----------------------------------------------------------------------------
\* Properties of random_walker (checked under Spec)

Density(r) == prob_density(r, alpha)
Written == i     \* entries written by the loop so far

\* C1: every written entry steps[k], k >= 2 (the code's i >= 1), is either the
\* previous entry copied forward or the proposal of that iteration, which was
\* drawn around the previous entry and accepted; every iteration writes its entry.
C1_TrajectoryInvariant ==
    /\ Len(hist) = Written
    /\ pc = "returned" => Written = N_steps
    /\ \A k \in 2..Written :
          \/ steps[k] = steps[k - 1]
          \/ /\ hist[k].accepted
             /\ steps[k] = hist[k].next_point
             /\ hist[k].center = steps[k - 1]
             /\ \E z \in Normals : hist[k].next_point = normal(steps[k - 1], tm_sigma, z)

\* a returned trajectory in which an accepted move is followed by a rejected
\* proposal, whose entry repeats the previous one
C1_Witness ==
    /\ pc = "returned" /\ N_steps = 2 /\ Len(hist) = 2
    /\ hist[1].accepted /\ steps[1] # init_point /\ steps[1] # 0
    /\ ~hist[2].accepted /\ hist[2].next_point # steps[1]
    /\ steps[2] = steps[1]

\* C2: a returned trajectory has N_steps entries and starts at init_point.
C2_LengthAndFirst ==
    pc = "returned" => Len(steps) = N_steps /\ steps[1] = init_point

\* C3: every iteration computes the ratio (both densities at the alpha of the
\* call) and moves exactly when u <= Density(next_point)/Density(curr_point).
C3_AcceptanceRule ==
    /\ ~(pc = "raised" /\ err = "TypeError")
    /\ \A k \in 1..Len(hist) :
          LET num == Density(hist[k].next_point)
              den == Density(hist[k].center)
          IN den > 0 => (hist[k].accepted <=> hist[k].u * den <= num * UDen)

\* C4: no iteration completes (and so no trajectory is returned) after dividing by
\* a zero density at the current point: the call fails there instead.
C4_ZeroDensityFails ==
    /\ \A k \in 1..Len(hist) : Density(hist[k].center) # 0
    /\ (pc = "raised" /\ err = "ZeroDivisionError") => Density(curr_point) = 0

\* C10 as claimed: from an initial point of positive density the current point
\* has positive density at every iteration, whatever the uniform draws.
C10_AlwaysPositive ==
    (pc \in {"loop", "returned"} /\ Density(init_point) > 0)
        => Density(curr_point) > 0

\* C10 amended: from an initial point of positive density, as long as every
\* uniform draw so far was nonzero, no zero-density proposal has been accepted and
\* the current point has positive density.
C10_PositiveWhileDrawsNonzero ==
    (/\ pc \in {"loop", "returned"}
     /\ Density(init_point) > 0
     /\ \A k \in 1..Len(hist) : hist[k].u > 0)
        => /\ Density(curr_point) > 0
           /\ \A k \in 1..Len(hist) :
                 Density(hist[k].next_point) = 0 => ~hist[k].accepted

\* a zero-density proposal rejected on a nonzero draw, after an accepted move
C10_Witness ==
    /\ pc = "returned" /\ N_steps >= 2 /\ Len(hist) >= 2 /\ Density(init_point) > 0
    /\ \A k \in 1..Len(hist) : hist[k].u > 0
    /\ hist[1].accepted /\ hist[1].next_point # init_point
    /\ Density(hist[2].next_point) = 0 /\ ~hist[2].accepted
    /\ Density(curr_point) > 0

----------------------------------------------------------------------------
\* find_optimal_tm_sigma, one call

\* the densities the tuner is run on: symmetric shapes with values 0 and 1
TunerShapes == {g \in Shapes : g[-1] = g[1] /\ \A r \in Points : g[r] <= 1}

InitTuner ==
    /\ DensityInit /\ shape \in TunerShapes
    /\ Niter \in 0..MaxNiter
    /\ tm_sigma_init \in Sigmas
    /\ pc = "call" /\ LocalsInit
    /\ curr_tm_sigma = 0 /\ iter = 0
    /\ total_rate = Fin(0, 1) /\ rate_av = Fin(0, 1)
    /\ N_steps = 0 /\ tm_sigma = 0
    /\ WalkerIdle /\ MCIdle /\ OptIdle /\ MultiIdle

\* an exception leaves find_optimal_tm_sigma
TunerRaise(e) ==
    /\ pc' = "raised" /\ err' = e
    /\ UNCHANGED <<curr_point, i, next_point, rate, u, curr_tm_sigma, iter, total_rate>>

TunerRest == <<dvars, N_steps, init_point, tm_sigma, steps, hist, Niter, tm_sigma_init,
               cvars, ovars, mvars>>

\* lines 171-174: curr_point = np.zeros(dim); curr_tm_sigma = tm_sigma_init;
\* iter = 1; total_rate, rate_av = 0, 0
tuner_enter ==
    /\ pc = "call"
    /\ curr_point' = 0
    /\ curr_tm_sigma' = tm_sigma_init
    /\ iter' = 1
    /\ total_rate' = Fin(0, 1)
    /\ rate_av' = Fin(0, 1)
    /\ pc' = "while"
    /\ UNCHANGED <<err, i, next_point, rate, u>>
    /\ UNCHANGED TunerRest

\* line 175, condition true: a batch starts
tuner_batch_begin ==
    /\ pc = "while" /\ iter <= Niter
    /\ i' = 0
    /\ pc' = "batch"
    /\ UNCHANGED <<err, curr_point, next_point, rate, u, curr_tm_sigma, iter,
                   total_rate, rate_av>>
    /\ UNCHANGED TunerRest

\* lines 176-181: one Metropolis step of for i in range(100)
tuner_batch_step ==
    /\ pc = "batch" /\ i < BatchLen
    /\ IF curr_tm_sigma < 0 THEN TunerRaise("ValueError")
       ELSE \E z \in Normals :
          LET next == normal(curr_point, curr_tm_sigma, z) IN
          IF ~has_default THEN TunerRaise("TypeError")
          ELSE IF DivisionRaises(curr_point) THEN TunerRaise("ZeroDivisionError")
          ELSE \E uu \in Uniforms :
             LET r == Rate(next, curr_point) IN
                /\ next_point' = next
                /\ rate' = r
                /\ total_rate' = FAdd(total_rate, RateValue(r))
                /\ u' = uu
                /\ curr_point' = IF Accepts(uu, r) THEN next ELSE curr_point
                /\ i' = i + 1
                /\ UNCHANGED <<pc, err, curr_tm_sigma, iter>>
    /\ UNCHANGED rate_av
    /\ UNCHANGED TunerRest

\* lines 182-184: rate_av = total_rate/100, then the test
\*   abs(rate_av - 0.5)>tol & (rate_av - 0.5)>0
\* in which & binds tighter than > and is applied to tol and the float
\* rate_av - 0.5: TypeError, whatever the values.  Lines 185-190 are not reached.
tuner_batch_end ==
    /\ pc = "batch" /\ i = BatchLen
    /\ rate_av' = FDiv(total_rate, BatchLen)
    /\ TunerRaise("TypeError")
    /\ UNCHANGED TunerRest

\* line 175, condition false, and line 191: return curr_tm_sigma
tuner_return ==
    /\ pc = "while" /\ iter > Niter
    /\ pc' = "returned"
    /\ UNCHANGED <<err, curr_point, i, next_point, rate, u, curr_tm_sigma, iter,
                   total_rate, rate_av>>
    /\ UNCHANGED TunerRest

NextTuner ==
    \/ tuner_enter \/ tuner_batch_begin \/ tuner_batch_step
    \/ tuner_batch_end \/ tuner_return

SpecTuner == InitTuner /\ [][NextTuner]_vars

\* C7: called with a valid scale and a density that is positive at the start
\* point, find_optimal_tm_sigma never fails: whenever the call has ended it has
\* returned a sigma, having run at most Niter batches.
C7_TunerReturns ==
    (tm_sigma_init >= 0 /\ shape[0] > 0)
        => /\ pc # "raised"
           /\ pc = "returned" => iter <= Niter + 1

----------------------------------------------------------------------------
\* MC_integration, one call

InitMC ==
    /\ DensityInit
    /\ E_const \in 0..MaxEnergy
    /\ N_steps \in 1..MaxSteps
    /\ N_walkers \in 1..MaxWalkers
    /\ N_skip \in 0..MaxSteps
    /\ mc_pc = "call"
    /\ mc_result = [kind |-> "unset", estimate |-> 0, stderr |-> 0]
    /\ pc = "idle" /\ LocalsInit /\ tm_sigma = 0
    /\ WalkerIdle /\ TunerIdle /\ OptIdle /\ MultiIdle

\* line 223: return (the whole body: nothing is sampled, None is returned)
MC_integration ==
    /\ mc_pc = "call"
    /\ mc_pc' = "returned"
    /\ mc_result' = [kind |-> "None", estimate |-> 0, stderr |-> 0]
    /\ UNCHANGED <<E_const, N_walkers, N_skip>>
    /\ UNCHANGED <<dvars, wvars, tvars, ovars, mvars>>

NextMC == MC_integration

SpecMC == InitMC /\ [][NextMC]_vars

\* C5: with a constant local energy c and N_skip < N_steps the call returns the
\* pair (estimate, stderr) = (c, 0).
C5_ConstantEnergy ==
    (mc_pc # "call" /\ N_skip < N_steps)
        => /\ mc_pc = "returned"
           /\ mc_result.kind = "pair"
           /\ mc_result.estimate = E_const
           /\ mc_result.stderr = 0

\* C6: with N_skip >= N_steps the call fails; it never returns normally.
C6_SkipTooLargeFails ==
    (mc_pc # "call" /\ N_skip >= N_steps) => mc_pc = "raised"

----------------------------------------------------------------------------
\* Optimizer instances

OptIds == {1, 2}
Methods == {"scan", "steepest_descent", "other"}

\* lines 249-253: __init__
InitOpt ==
    /\ opt \in [OptIds -> [method : Methods, converged : {FALSE}, alpha : Alphas]]
    /\ opt_err = [o \in OptIds |-> "none"]
    /\ opt_calls = [o \in OptIds |-> 0]
    /\ DensityIdle /\ pc = "idle" /\ LocalsInit /\ N_steps = 0 /\ tm_sigma = 0
    /\ WalkerIdle /\ TunerIdle /\ MCIdle /\ MultiIdle

\* (variant of converged_after in which the last branch flips the flag)
converged_flipped(method, converged) ==
    IF method \in {"scan", "steepest_descent"} THEN converged ELSE ~converged

\* self.converged after update_alpha.  Lines 257 and 262 raise before the
\* assignments that follow them; line 267 sets the flag.
converged_after(method, converged) ==
    IF method \in {"scan", "steepest_descent"} THEN converged ELSE TRUE

\* the exception update_alpha leaves with: line 257 reads the undefined name
\* step, line 262 the attribute self.args that __init__ never sets
update_alpha_error(method) ==
    IF method = "scan" THEN "NameError"
    ELSE IF method = "steepest_descent" THEN "AttributeError"
    ELSE "none"

\* lines 255-269: update_alpha on instance o (self.alpha is assigned on no path
\* that completes)
update_alpha(o) ==
    /\ opt_calls[o] < MaxCalls
    /\ opt' = [opt EXCEPT ![o].converged = converged_after(opt[o].method, @)]
    /\ opt_err' = [opt_err EXCEPT ![o] = update_alpha_error(opt[o].method)]
    /\ opt_calls' = [opt_calls EXCEPT ![o] = @ + 1]
    /\ UNCHANGED <<dvars, wvars, tvars, cvars, mvars>>

NextOpt == \E o \in OptIds : update_alpha(o)

SpecOpt == InitOpt /\ [][NextOpt]_vars

\* C8: every Optimizer starts with converged = FALSE, and no update_alpha sets
\* converged back to FALSE once it is TRUE.
C8_ConvergedTerminal ==
    /\ \A o \in OptIds : ~opt[o].converged
    /\ [][\A o \in OptIds : opt[o].converged => opt'[o].converged]_vars

\* update_alpha called again on a converged Optimizer, another one still optimizing
C8_Witness ==
    \E o, q \in OptIds :
        /\ opt[o].converged /\ opt_calls[o] >= 2
        /\ ~opt[q].converged /\ opt_calls[q] >= 1

----------------------------------------------------------------------------
\* Walkers run side by side.  np.random is the module-level generator every
\* np.random.normal and np.random.rand call of the library draws from; it is
\* modelled as a seeded linear congruential generator.

Walkers == 1..MaxWalkers
Seeds == 0..15

rng_next(s) == (5 * s + 3) % 16
normal_of(s) == ((3 * s) \div 16) - 1       \* the standard-normal draw read off state s
uniform_of(s) == (UDen * s) \div 16         \* the numerator of the uniform draw

\* the densities the walkers are run on
MultiShapes == {g \in Shapes : g[0] = MaxG /\ g[-1] = g[1]}

InitMulti ==
    /\ DensityInit /\ shape \in MultiShapes
    /\ N_steps \in 1..MaxSteps
    /\ tm_sigma \in Sigmas
    /\ system_size \in Sigmas
    /\ seed \in Seeds /\ rng = seed
    /\ m_pc = [w \in Walkers |-> "start"]
    /\ m_err = [w \in Walkers |-> "none"]
    /\ m_init = [w \in Walkers |-> 0]
    /\ m_curr = [w \in Walkers |-> 0]
    /\ m_next = [w \in Walkers |-> 0]
    /\ m_i = [w \in Walkers |-> 0]
    /\ m_steps = [w \in Walkers |-> << >>]
    /\ pc = "idle" /\ LocalsInit
    /\ WalkerIdle /\ TunerIdle /\ MCIdle /\ OptIdle

MultiRest == <<dvars, wvars, tvars, cvars, ovars, system_size, seed>>

MRaise(w, e) ==
    /\ m_pc' = [m_pc EXCEPT ![w] = "raised"]
    /\ m_err' = [m_err EXCEPT ![w] = e]
    /\ UNCHANGED <<rng, m_init, m_curr, m_next, m_i, m_steps>>

\* line 165: init_point = np.random.normal(scale=system_size, size = dim)
m_rand_init_point(w) ==
    /\ m_pc[w] = "start"
    /\ IF system_size < 0 THEN MRaise(w, "ValueError")
       ELSE /\ rng' = rng_next(rng)
            /\ m_init' = [m_init EXCEPT ![w] = normal(0, system_size, normal_of(rng'))]
            /\ m_pc' = [m_pc EXCEPT ![w] = "call"]
            /\ UNCHANGED <<m_err, m_curr, m_next, m_i, m_steps>>
    /\ UNCHANGED MultiRest

\* lines 136-138 (an empty array has no row 0)
m_enter(w) ==
    /\ m_pc[w] = "call"
    /\ IF N_steps = 0 THEN MRaise(w, "IndexError")
       ELSE /\ m_steps' = [m_steps EXCEPT ![w] =
                              [k \in 1..N_steps |-> IF k = 1 THEN m_init[w] ELSE 0]]
            /\ m_curr' = [m_curr EXCEPT ![w] = m_init[w]]
            /\ m_i' = [m_i EXCEPT ![w] = 0]
            /\ m_pc' = [m_pc EXCEPT ![w] = "loop"]
            /\ UNCHANGED <<rng, m_err, m_init, m_next>>
    /\ UNCHANGED MultiRest

\* line 140: next_point = np.random.normal(loc=curr_point,scale=tm_sigma)
m_propose(w) ==
    /\ m_pc[w] = "loop" /\ m_i[w] < N_steps
    /\ IF tm_sigma < 0 THEN MRaise(w, "ValueError")
       ELSE /\ rng' = rng_next(rng)
            /\ m_next' = [m_next EXCEPT ![w] = normal(m_curr[w], tm_sigma, normal_of(rng'))]
            /\ m_pc' = [m_pc EXCEPT ![w] = "ratio"]
            /\ UNCHANGED <<m_err, m_init, m_curr, m_i, m_steps>>
    /\ UNCHANGED MultiRest

\* lines 141-146: the ratio, the uniform draw and the decision
m_decide(w) ==
    /\ m_pc[w] = "ratio"
    /\ IF ~has_default THEN MRaise(w, "TypeError")
       ELSE IF DivisionRaises(m_curr[w]) THEN MRaise(w, "ZeroDivisionError")
       ELSE LET accepted == Accepts(uniform_of(rng'), Rate(m_next[w], m_curr[w])) IN
            /\ rng' = rng_next(rng)
            /\ m_steps' = [m_steps EXCEPT ![w][m_i[w] + 1] =
                              Recorded(accepted, m_next[w], m_curr[w], @)]
            /\ m_curr' = [m_curr EXCEPT ![w] = IF accepted THEN m_next[w] ELSE @]
            /\ m_i' = [m_i EXCEPT ![w] = @ + 1]
            /\ m_pc' = [m_pc EXCEPT ![w] = "loop"]
            /\ UNCHANGED <<m_err, m_init, m_next>>
    /\ UNCHANGED MultiRest

\* line 148
m_return(w) ==
    /\ m_pc[w] = "loop" /\ m_i[w] = N_steps
    /\ m_pc' = [m_pc EXCEPT ![w] = "returned"]
    /\ UNCHANGED <<rng, m_err, m_init, m_curr, m_next, m_i, m_steps>>
    /\ UNCHANGED MultiRest

NextMulti ==
    \E w \in Walkers :
        \/ m_rand_init_point(w) \/ m_enter(w) \/ m_propose(w)
        \/ m_decide(w) \/ m_return(w)

SpecMulti == InitMulti /\ [][NextMulti]_vars

\* The outcome of rand_init_point followed by random_walker when nothing else
\* draws from np.random: the exception that leaves the call, or the array returned.
SoloRaised(e) == [pc |-> "raised", err |-> e, steps |-> << >>]
SoloReturned(st) == [pc |-> "returned", err |-> "none", steps |-> st]

\* lines 139-148 from generator state s, current point cur, k iterations done,
\* array st; the steps raise where m_propose and m_decide do
RECURSIVE SoloLoop(_, _, _, _)
SoloLoop(s, cur, k, st) ==
    IF k = N_steps THEN SoloReturned(st)
    ELSE IF tm_sigma < 0 THEN SoloRaised("ValueError")
    ELSE IF ~has_default THEN SoloRaised("TypeError")
    ELSE IF DivisionRaises(cur) THEN SoloRaised("ZeroDivisionError")
    ELSE LET s1 == rng_next(s)
             next == normal(cur, tm_sigma, normal_of(s1))
             s2 == rng_next(s1)
             accepted == Accepts(uniform_of(s2), Rate(next, cur))
         IN SoloLoop(s2, IF accepted THEN next ELSE cur, k + 1,
                     [st EXCEPT ![k + 1] = Recorded(accepted, next, cur, @)])

\* line 165, then lines 136-138, then the loop
SoloTrajectory ==
    IF system_size < 0 THEN SoloRaised("ValueError")
    ELSE IF N_steps = 0 THEN SoloRaised("IndexError")
    ELSE LET s1 == rng_next(seed)
             init == normal(0, system_size, normal_of(s1))
         IN SoloLoop(s1, init, 0, [k \in 1..N_steps |-> IF k = 1 THEN init ELSE 0])

\* C9: whatever the interleaving, every walker ends as it does when it runs
\* alone from the same seed: a walker that has returned a trajectory returns
\* that same trajectory alone, and a walker that has failed fails alone with
\* the same exception.
C9_WalkersIndependent ==
    \A w \in Walkers :
        /\ m_pc[w] = "returned" =>
              SoloTrajectory.pc = "returned" /\ m_steps[w] = SoloTrajectory.steps
        /\ m_pc[w] = "raised" =>
              SoloTrajectory.pc = "raised" /\ m_err[w] = SoloTrajectory.err

====
